---- MODULE Spec2Model ----
(***************************************************************************)
(* State-machine model of the ziggy retrieval core:                        *)
(*   FiniteList        (src/agent.py)        the backward-addressed ring   *)
(*   OrderedSet, IndexDict (src/ziggy/utils.py)                            *)
(*   TorchVectorIndex  (src/ziggy/index.py)  the label-addressed index     *)
(*   TorchVectorIndex  (src/index.py)        the older index with compress *)
(*   HistoryDatabase   (src/agent.py)        ring + ages + index           *)
(* Python lists are sequences; Python position i is sequence index i+1.    *)
(***************************************************************************)
EXTENDS Integers, Sequences, FiniteSets, TLC

VARIABLES
    max, pos, data,                          \* FiniteList
    labels, lset,                            \* OrderedSet: the list and its _set
    grpids,                                  \* IndexDict: group key -> id
    values, groups,                          \* embedding rows and per-slot group ids
    hist, written,                           \* history variables of the checks
    given,                                   \* history: the <<key, id>> pairs the registry ever held
    age,                                     \* HistoryDatabase.age: steps since a slot was written, -1 if never
    budget,                                  \* calls the run may still make
    call,                                    \* arguments of the last call, where recorded
    ret,                                     \* outcome of the last call
    queues, unfinished,                      \* pipeline_threads: the items and unfinished_tasks of each Queue
    kill,                                    \* pipeline_threads: the kill Event
    threads,                                 \* pipeline_threads: each worker's stage, position and item in hand
    main                                     \* pipeline_threads: the position of the calling thread

ringvars == <<max, pos, data>>

idxvars == <<labels, lset, grpids, values, groups>>

pipevars == <<queues, unfinished, kill, threads, main>>

vars == <<max, pos, data, labels, lset, grpids, values, groups, hist, age, written, given, budget, call, ret,
          queues, unfinished, kill, threads, main>>

\* No pipeline runs.
NoPipe ==
    /\ queues = <<>>
    /\ unfinished = <<>>
    /\ kill = FALSE
    /\ threads = <<>>
    /\ main = <<>>

(***************************************************************************)
(* Bounds of the model.                                                    *)
(***************************************************************************)
MaxCap == 4
MaxAppends == 9
NumLabels == 2
MaxBatch == 2
MaxOps == 2

(***************************************************************************)
(* Python helpers.                                                         *)
(***************************************************************************)
\* An optional argument: None is the empty sequence, a given value v is <<v>>.
None == <<>>

Some(v) == <<v>>

IsNone(o) == Len(o) = 0

At(s, i) == s[i + 1]

Min(a, b) == IF a < b THEN a ELSE b

Max(a, b) == IF a > b THEN a ELSE b

\* list(range(a, b)) of Python.
PyRange(a, b) == [i \in 1..(IF b > a THEN b - a ELSE 0) |-> a + i - 1]

\* s[start:stop:-1] of a Python list: the bounds of a negative-step slice.
RevStart(start, n) ==
    IF IsNone(start) THEN n - 1
    ELSE LET a == IF start[1] < 0 THEN start[1] + n ELSE start[1]
         IN  IF a < 0 THEN -1 ELSE IF a >= n THEN n - 1 ELSE a

RevStop(stop, n) ==
    IF IsNone(stop) THEN -1
    ELSE LET b == IF stop[1] < 0 THEN stop[1] + n ELSE stop[1]
         IN  IF b < 0 THEN -1 ELSE IF b >= n THEN n - 1 ELSE b

RevSlice(s, start, stop) ==
    LET a == RevStart(start, Len(s))
        b == RevStop(stop, Len(s))
    IN  [i \in 1..(IF a > b THEN a - b ELSE 0) |-> At(s, a - (i - 1))]

(***************************************************************************)
(* FiniteList (src/agent.py).                                              *)
(***************************************************************************)
\* slice_to_indices(slice(start, stop), size), step 1.
slice_to_indices(start, stop, size) ==
    LET start0 == IF IsNone(start) THEN 0 ELSE start[1]
        stop0  == IF IsNone(stop) THEN size ELSE stop[1]
        start1 == IF start0 < 0 THEN start0 + size ELSE start0
        end1   == IF stop0 < 0 THEN stop0 + size ELSE stop0
        start2 == Max(0, start1)
        end2   == Min(size, end1)
    IN  PyRange(start2, stop0)

\* A read that addresses forward from the oldest cell of the list.
getitem_int_forward(idx) ==
    LET size == Len(data)
    IN  IF idx >= size \/ idx < -size
        THEN [err |-> "IndexError", val |-> <<>>]
        ELSE [err |-> "none", val |-> <<At(data, idx % size)>>]

\* A read whose lower bound is off by one: it refuses idx = -size.
getitem_int_low(idx) ==
    LET size == Len(data)
    IN  IF idx >= size \/ idx <= -size
        THEN [err |-> "IndexError", val |-> <<>>]
        ELSE [err |-> "none", val |-> <<At(data, (pos - 1 - idx) % size)>>]

\* FiniteList.__getitem__ with an integer: [err, val].
getitem_int(idx) ==
    LET size == Len(data)
    IN  IF idx >= size \/ idx < -size
        THEN [err |-> "IndexError", val |-> <<>>]
        ELSE [err |-> "none", val |-> <<At(data, (pos - 1 - idx) % size)>>]

\* FiniteList.__getitem__ with a list of integers: the first failure raises.
getitem_list(idxs) ==
    IF \E j \in 1..Len(idxs) : getitem_int(idxs[j]).err # "none"
    THEN [err |-> "IndexError", val |-> <<>>]
    ELSE [err |-> "none", val |-> [j \in 1..Len(idxs) |-> getitem_int(idxs[j]).val[1]]]

\* FiniteList.__getitem__ with slice(start, stop).
getitem_slice(start, stop) == getitem_list(slice_to_indices(start, stop, Len(data)))

empty == Len(data) = 0

full == Len(data) = max

\* FiniteList.values.
values_list ==
    IF empty THEN <<>>
    ELSE IF full
         THEN RevSlice(data, Some(pos - 1), None) \o RevSlice(data, None, Some(pos))
         ELSE RevSlice(data, Some(pos - 1), None)

\* A ring that overwrites the cell after the cursor instead of the oldest one.
append_data_next_cell(item) ==
    IF Len(data) < max THEN Append(data, item)
    ELSE [data EXCEPT ![((pos + 1) % max) + 1] = item]

\* FiniteList.append: the new data and pos.
append_data(item) ==
    IF Len(data) < max THEN Append(data, item) ELSE [data EXCEPT ![pos + 1] = item]

\* An append that stops advancing the cursor once the list is full.
FiniteList_append_stuck(item) ==
    /\ data' = append_data(item)
    /\ pos' = IF Len(data) < max THEN (pos + 1) % max ELSE pos

FiniteList_append(item) ==
    /\ data' = append_data(item)
    /\ pos' = (pos + 1) % max

(***************************************************************************)
(* The ring on its own: appends of pairwise distinct items and reads.      *)
(***************************************************************************)
SliceBounds == {None} \cup {Some(i) : i \in (0 - (MaxCap + 1))..(MaxCap + 1)}

IndexArgs == (0 - (MaxCap + 1))..(MaxCap + 1)

\* The index variables while only the ring is exercised.
NoIndex ==
    /\ labels = <<>>
    /\ lset = {}
    /\ grpids = {}
    /\ values = <<>>
    /\ groups = <<>>
    /\ written = <<>>
    /\ age = <<>>
    /\ budget = 0
    /\ call = <<>>
    /\ given = {}
    /\ NoPipe

InitRing ==
    /\ max \in 1..MaxCap
    /\ pos = 0
    /\ data = <<>>
    /\ hist = <<>>
    /\ NoIndex
    /\ ret = [op |-> "init", args |-> <<>>, err |-> "none", val |-> <<>>]

RingAppend ==
    /\ Len(hist) < MaxAppends
    /\ FiniteList_append(Len(hist) + 1)
    /\ hist' = Append(hist, Len(hist) + 1)
    /\ ret' = [op |-> "append", args |-> <<Len(hist) + 1>>, err |-> "none", val |-> <<>>]
    /\ UNCHANGED <<max, idxvars, age, written, given, pipevars, budget, call>>

RingValues ==
    /\ ret' = [op |-> "values", args |-> <<>>, err |-> "none", val |-> values_list]
    /\ UNCHANGED <<ringvars, idxvars, hist, age, written, given, pipevars, budget, call>>

RingGetItem ==
    \E i \in IndexArgs :
        /\ ret' = [op |-> "getitem", args |-> <<i>>,
                   err |-> getitem_int(i).err, val |-> getitem_int(i).val]
        /\ UNCHANGED <<ringvars, idxvars, hist, age, written, given, pipevars, budget, call>>

RingGetSlice ==
    \E start \in SliceBounds, stop \in SliceBounds :
        /\ ret' = [op |-> "slice", args |-> <<start, stop>>,
                   err |-> getitem_slice(start, stop).err,
                   val |-> getitem_slice(start, stop).val]
        /\ UNCHANGED <<ringvars, idxvars, hist, age, written, given, pipevars, budget, call>>

NextRing == RingAppend \/ RingValues \/ RingGetItem \/ RingGetSlice

SpecRing == InitRing /\ [][NextRing]_vars

(***************************************************************************)
(* Properties of the ring.                                                 *)
(***************************************************************************)
\* The items a ring of capacity max holds after the appends of hist, most
\* recent first: the last Min(Len(hist), max) appended items, reversed.
Logical == [i \in 1..Min(Len(hist), max) |-> hist[Len(hist) - i + 1]]

\* The items appended and since overwritten: the first Len(hist) - max ones.
Evicted == {hist[j] : j \in 1..(IF Len(hist) > max THEN Len(hist) - max ELSE 0)}

\* s[start:stop] of a Python sequence (step 1): absent bounds are 0 and
\* len(s), negative bounds count from the end, all bounds are clamped.
SeqBound(b, n, dflt) ==
    IF IsNone(b) THEN dflt
    ELSE LET x == IF b[1] < 0 THEN b[1] + n ELSE b[1]
         IN  IF x < 0 THEN 0 ELSE IF x > n THEN n ELSE x

PySlice(s, start, stop) ==
    LET lo == SeqBound(start, Len(s), 0)
        hi == SeqBound(stop, Len(s), Len(s))
    IN  [i \in 1..(IF hi > lo THEN hi - lo ELSE 0) |-> s[lo + i]]

\* The logical sequence [item(0), ..., item(size-1)] read index by index.
LogicalItems == [i \in 1..Len(data) |-> getitem_int(i - 1).val[1]]

\* C1: values() returns exactly the min(n, C) most recently appended items,
\* most recent first, none missing and none repeated.
C1_ValuesMostRecentFirst ==
    ret.op = "values" => ret.val = Logical

\* C2: once more than C pairwise distinct items were appended, values()[0] is
\* the last appended item, and neither values() nor a read of any logical
\* index returns one of the first n - C items.
C2_OldestOverwritten ==
    Len(hist) > max =>
        /\ ret.op = "values" =>
              /\ Len(ret.val) > 0
              /\ ret.val[1] = hist[Len(hist)]
              /\ \A j \in 1..Len(ret.val) : ret.val[j] \notin Evicted
        /\ (ret.op = "getitem" /\ ret.err = "none") => ret.val[1] \notin Evicted

C2_Witness ==
    /\ Len(hist) > max + 1
    /\ max > 1
    /\ ret.op = "values"
    /\ Len(ret.val) > 1

\* C3: a step-1 slice with absent, negative, in-range or too large bounds
\* never fails and returns what sequence slicing selects from the logical
\* sequence.
C3_SliceAsSequence ==
    ret.op = "slice" =>
        /\ ret.err = "none"
        /\ ret.val = PySlice(LogicalItems, ret.args[1], ret.args[2])

(***************************************************************************)
(* TorchVectorIndex (src/ziggy/index.py) over OrderedSet and IndexDict     *)
(* (src/ziggy/utils.py).  A vector is a sequence of dims integers.  A row   *)
(* or a group cell that was allocated and never written holds Uninit: its   *)
(* content is whatever the allocator left, chosen when the cell is read.    *)
(***************************************************************************)
dims == 2

Labels == 0..(NumLabels - 1)

VecVals == {<<1, 0>>, <<0, 1>>}

GroupKeys == {"None", "g"}

Uninit == <<>>

NoTag == -2

\* What a read of a row, or of a group cell, can return.
ReadVec(x) == IF x = Uninit THEN VecVals ELSE {x}

ReadTag(t) == IF t = NoTag THEN 0..(Cardinality(GroupKeys) - 1) ELSE {t}

SeqRange(s) == {s[i] : i \in 1..Len(s)}

\* The positions i (from 1) of s whose element is in S, in increasing order.
Positions(s, S) == SelectSeq([i \in 1..Len(s) |-> i], LAMBDA i : s[i] \in S)

\* next_power_of_2(x) for x >= 1: pow(2, ceil(log2(x))).
RECURSIVE pow2_from(_, _)
pow2_from(p, x) == IF p >= x THEN p ELSE pow2_from(2 * p, x)

next_power_of_2(x) == pow2_from(1, x)

\* list.index(x) on the label list: the first position (from 0) of x.
InList(lst, x) == \E i \in 1..Len(lst) : lst[i] = x

index_in(lst, x) == (CHOOSE i \in 1..Len(lst) : lst[i] = x /\ \A j \in 1..(i - 1) : lst[j] # x) - 1

\* list.pop(idx): OrderedSet does not override it, so _set is left alone.
pop_at(lst, idx) == [i \in 1..(Len(lst) - 1) |-> IF i <= idx THEN lst[i] ELSE lst[i + 1]]

\* TorchVectorIndex.size.
size == Len(labels)

\* OrderedSet.intersection: answered by _set.
intersection(keys) == lset \cap keys

\* IndexDict: a set of <<key, id>> pairs.
Keys(d) == {p[1] : p \in d}

GidOf(d, k) == (CHOOSE p \in d : p[1] = k)[2]

\* IndexDict.add(keys): the unseen keys get the ids len(self), len(self)+1, ...
\* in the iteration order of a set, which is any order.
IndexDict_add(d, keys) ==
    LET new == SeqRange(keys) \ Keys(d)
        n0  == Cardinality(d)
        ids == n0..(n0 + Cardinality(new) - 1)
    IN  {d \cup {<<k, f[k]>> : k \in new} :
            f \in {g \in [new -> ids] : \A a, b \in new : a # b => g[a] # g[b]}}

\* The capacity: the allocated rows of values (and cells of groups).
capacity == Len(values)

\* A resize that allocates afresh and does not copy the old rows.
Grow_fresh(s, n, blank) == [i \in 1..n |-> IF n = Len(s) THEN s[i] ELSE blank]

\* resize to n >= Len(s) rows: the old rows stay, the new ones are unwritten.
Grow(s, n, blank) == [i \in 1..n |-> IF i <= Len(s) THEN s[i] ELSE blank]

\* TorchVectorIndex.expand(size, power=True): the capacity afterwards.
expand_to(n) == IF next_power_of_2(n) > capacity THEN next_power_of_2(n) ELSE capacity

\* A call that raises before it changed the index.
Raise(op, e) ==
    /\ ret' = [op |-> op, args |-> <<>>, err |-> e, val |-> <<>>]
    /\ UNCHANGED idxvars

\* A strict check that only rejects a call all of whose labels exist.
strict_raises_all(strict, exist, slabs) == strict /\ exist = slabs

\* Where add raises for strict=True: on any label the index already has.
strict_raises(strict, exist, slabs) == strict /\ exist # {}

\* A shape check that only counts the rows.
bad_shape_rows(nlabs, vecs) == Len(vecs) # nlabs

\* The assertions of add: nv == nlabs and dv == dims.
bad_shape(nlabs, vecs) == Len(vecs) # nlabs \/ (\E i \in 1..Len(vecs) : Len(vecs[i]) # dims)

\* TorchVectorIndex.add(labs, vecs, groups, strict).  grp is [many, keys]:
\* one key for every label (many = FALSE, keys = <<k>>) or a list of keys.
add(labs, vecs, grp, strict) ==
    LET nlabs == Len(labs)
        slabs == SeqRange(labs)
        exist == intersection(slabs)
        novel == slabs \ exist
        twice == {x \in exist : Cardinality({i \in 1..nlabs : labs[i] = x}) > 1}
    IN
    IF bad_shape(nlabs, vecs)
    THEN Raise("add", "AssertionError")
    ELSE IF strict_raises(strict, exist, slabs)
    THEN Raise("add", "DuplicateLabel")
    ELSE \E ng \in IndexDict_add(grpids, grp.keys) :
        LET gids == [i \in 1..nlabs |->
                        IF grp.many THEN GidOf(ng, grp.keys[i]) ELSE GidOf(ng, grp.keys[1])]
        IN
        IF \E x \in exist : ~InList(labels, x)
        THEN \* labels.index(x) raises ValueError: _set names a label the list lost
             /\ grpids' = ng
             /\ UNCHANGED <<labels, lset, values, groups>>
             /\ ret' = [op |-> "add", args |-> <<>>, err |-> "ValueError", val |-> <<>>]
        ELSE
        \* a label given twice is written twice at one slot: either write may win
        \E wv \in {w \in [twice -> 1..nlabs] : \A x \in twice : labs[w[x]] = x},
           wg \in {w \in [twice -> 1..nlabs] : \A x \in twice : labs[w[x]] = x} :
            LET slot_of(j) == {x \in exist : index_in(labels, x) + 1 = j}
                from(w, x) == IF x \in twice THEN w[x] ELSE CHOOSE i \in 1..nlabs : labs[i] = x
                values1 == [j \in 1..capacity |->
                               IF slot_of(j) # {} THEN vecs[from(wv, CHOOSE x \in slot_of(j) : TRUE)]
                               ELSE values[j]]
                groups1 == [j \in 1..capacity |->
                               IF slot_of(j) # {} THEN gids[from(wg, CHOOSE x \in slot_of(j) : TRUE)]
                               ELSE groups[j]]
                xlocs    == Positions(labs, novel)
                xlabs    == [i \in 1..Len(xlocs) |-> labs[xlocs[i]]]
                nlabels0 == size
                nlabels1 == nlabels0 + Cardinality(novel)
                cap1     == expand_to(nlabels1)
                values2  == Grow(values1, cap1, Uninit)
                groups2  == Grow(groups1, cap1, NoTag)
                inrange(j) == j > nlabels0 /\ j <= nlabels1
            IN
            /\ grpids' = ng
            /\ IF novel = {}
               THEN /\ UNCHANGED <<labels, lset>>
                    /\ values' = values1
                    /\ groups' = groups1
                    /\ ret' = [op |-> "add", args |-> <<>>, err |-> "none", val |-> <<>>]
               ELSE /\ labels' = labels \o xlabs
                    /\ lset' = lset \cup novel
                    /\ IF Len(xlocs) = nlabels1 - nlabels0
                       THEN /\ values' = [j \in 1..cap1 |->
                                   IF inrange(j) THEN vecs[xlocs[j - nlabels0]] ELSE values2[j]]
                            /\ groups' = [j \in 1..cap1 |->
                                   IF inrange(j) THEN gids[xlocs[j - nlabels0]] ELSE groups2[j]]
                            /\ ret' = [op |-> "add", args |-> <<>>, err |-> "none", val |-> <<>>]
                       ELSE \* more rows than slots: the row assignment raises
                            /\ values' = values2
                            /\ groups' = groups2
                            /\ ret' = [op |-> "add", args |-> <<>>, err |-> "RuntimeError", val |-> <<>>]

\* One turn of the loop of TorchVectorIndex.remove, on st = [labels, values,
\* groups, err]; sz is the size read once before the loop.  The outcomes
\* differ by what the read of row sz and cell sz returns when unwritten.
remove_step(st, lab, sz) ==
    IF ~InList(st.labels, lab)
    THEN {[st EXCEPT !.err = "ValueError"]}
    ELSE LET idx == index_in(st.labels, lab)
             popped == pop_at(st.labels, idx)
         IN  IF sz >= Len(st.values)
             THEN {[st EXCEPT !.labels = popped, !.err = "IndexError"]}
             ELSE {[labels |-> popped,
                    values |-> [st.values EXCEPT ![idx + 1] = v],
                    groups |-> [st.groups EXCEPT ![idx + 1] = t],
                    err |-> "none"] :
                       v \in ReadVec(st.values[sz + 1]), t \in ReadTag(st.groups[sz + 1])}

\* The loop over labels.intersection(labs), a set: any order; it stops at
\* the first turn that raises.
RECURSIVE remove_loop(_, _, _)
remove_loop(st, todo, sz) ==
    IF todo = {} THEN {st}
    ELSE UNION {UNION {IF s.err # "none" THEN {s} ELSE remove_loop(s, todo \ {lab}, sz) :
                          s \in remove_step(st, lab, sz)} : lab \in todo}

\* TorchVectorIndex.remove(labs).
remove(labs) ==
    \E out \in remove_loop([labels |-> labels, values |-> values, groups |-> groups,
                            err |-> "none"], intersection(labs), size) :
        /\ labels' = out.labels
        /\ values' = out.values
        /\ groups' = out.groups
        /\ UNCHANGED <<lset, grpids>>
        /\ ret' = [op |-> "remove", args |-> <<>>, err |-> out.err, val |-> <<>>]

ZeroVec == [i \in 1..dims |-> 0]

\* TorchVectorIndex.clear(zero).
clear(zero) ==
    /\ labels' = <<>>
    /\ lset' = {}
    /\ grpids' = {}
    /\ values' = IF zero THEN [j \in 1..capacity |-> ZeroVec] ELSE values
    /\ groups' = IF zero THEN [j \in 1..capacity |-> 0] ELSE groups
    /\ ret' = [op |-> "clear", args |-> <<>>, err |-> "none", val |-> <<>>]

\* TorchVectorIndex.get(l) for one label: the possible [err, val].
get(l) ==
    IF ~InList(labels, l)
    THEN {[err |-> "ValueError", val |-> <<>>]}
    ELSE IF index_in(labels, l) >= capacity
    THEN {[err |-> "IndexError", val |-> <<>>]}
    ELSE {[err |-> "none", val |-> <<v>>] : v \in ReadVec(values[index_in(labels, l) + 1])}

(***************************************************************************)
(* The index on its own.                                                   *)
(***************************************************************************)
\* The ring variables while only the index is exercised.
NoRing ==
    /\ max = 1
    /\ pos = 0
    /\ data = <<>>
    /\ hist = <<>>
    /\ age = <<>>

NoWritten == [l \in Labels |-> Uninit]

\* The label lists of a call: 1..MaxBatch labels, no label twice.
LabLists ==
    {ls \in UNION {[1..n -> Labels] : n \in 1..MaxBatch} :
        \A i, j \in 1..Len(ls) : i # j => ls[i] # ls[j]}

\* The vectors of a call for n labels: rows that alternate between the two
\* vectors, starting with v.
VecRows(n, v) == [i \in 1..n |-> IF i % 2 = 1 THEN v ELSE CHOOSE w \in VecVals : w # v]

VecArgs(n) == {VecRows(n, v) : v \in VecVals}

\* Calls of the wrong shape: rows of dims + 1 numbers; one row too many.
BadVecArgs(n) == {[i \in 1..n |-> <<1, 0, 0>>], [i \in 1..(n + 1) |-> <<1, 0>>]}

\* groups=None, the default of add: the one key None for every label.
DefaultGroup == [many |-> FALSE, keys |-> <<"None">>]

\* The groups of a call for n labels: one key for all, or a list of keys.
GroupArgs(n) ==
    {[many |-> FALSE, keys |-> <<k>>] : k \in GroupKeys}
        \cup {[many |-> TRUE, keys |-> [i \in 1..n |-> IF i % 2 = 1 THEN "g" ELSE "None"]]}

\* The allocated sizes an index is constructed with.
InitSizes == {1, MaxCap}

\* TorchVectorIndex.__init__(dims, size): size rows allocated, none written.
\* The run may make calls more calls.
InitIndex(calls) ==
    /\ labels = <<>>
    /\ lset = {}
    /\ grpids = {}
    /\ \E n \in InitSizes :
          /\ values = [j \in 1..n |-> Uninit]
          /\ groups = [j \in 1..n |-> NoTag]
    /\ written = NoWritten
    /\ budget = calls
    /\ call = <<>>
    /\ given = {}
    /\ NoPipe
    /\ ret = [op |-> "init", args |-> <<>>, err |-> "none", val |-> <<>>]
    /\ NoRing

Add ==
    /\ budget > 0
    /\ \E labs \in LabLists :
          \E vecs \in VecArgs(Len(labs)), grp \in GroupArgs(Len(labs)) :
              add(labs, vecs, grp, FALSE)
    /\ budget' = budget - 1
    /\ call' = <<>>
    /\ UNCHANGED <<ringvars, hist, age, written, given, pipevars>>

AddStrict ==
    /\ budget > 0
    /\ \E labs \in LabLists, k \in GroupKeys :
          add(labs, VecRows(Len(labs), <<0, 1>>), [many |-> FALSE, keys |-> <<k>>], TRUE)
    /\ budget' = budget - 1
    /\ call' = <<>>
    /\ UNCHANGED <<ringvars, hist, age, written, given, pipevars>>

AddBadShape ==
    /\ budget > 0
    /\ \E l \in Labels :
          \E vecs \in BadVecArgs(1) :
              add(<<l>>, vecs, DefaultGroup, FALSE)
    /\ budget' = budget - 1
    /\ call' = <<>>
    /\ UNCHANGED <<ringvars, hist, age, written, given, pipevars>>

\* remove(labs), with labs recorded in call.
Remove ==
    /\ budget > 0
    /\ \E labs \in (SUBSET Labels) \ {{}} :
          /\ remove(labs)
          /\ call' = <<labs>>
    /\ budget' = budget - 1
    /\ UNCHANGED <<ringvars, hist, age, written, given, pipevars>>

Next == Add \/ AddStrict \/ AddBadShape \/ Remove

Spec == InitIndex(MaxOps + 1) /\ [][Next]_vars

\* The index under adds and removes, the last call of the run a strict add
\* whose labels and group key are recorded in call.
RemovePlain ==
    /\ budget > 0
    /\ \E labs \in (SUBSET Labels) \ {{}} : remove(labs)
    /\ budget' = budget - 1
    /\ call' = <<>>
    /\ UNCHANGED <<ringvars, hist, age, written, given, pipevars>>

StrictAddLast ==
    /\ budget > 0
    /\ \E labs \in LabLists, k \in GroupKeys :
          /\ add(labs, VecRows(Len(labs), <<0, 1>>), [many |-> FALSE, keys |-> <<k>>], TRUE)
          /\ call' = <<labs, k>>
    /\ budget' = 0
    /\ UNCHANGED <<ringvars, hist, age, written, given, pipevars>>

NextStrict == Add \/ RemovePlain \/ StrictAddLast

SpecStrict == InitIndex(MaxOps) /\ [][NextStrict]_vars

\* The index under non-strict adds of the default group only, with the vector
\* last given for each label recorded in written; get reads it back.
AddOnly ==
    /\ budget > 0
    /\ \E labs \in LabLists :
          \E vecs \in VecArgs(Len(labs)) :
              /\ add(labs, vecs, DefaultGroup, FALSE)
              /\ written' = [l \in Labels |->
                     IF InList(labs, l) THEN vecs[index_in(labs, l) + 1] ELSE written[l]]
    /\ budget' = budget - 1
    /\ call' = <<>>
    /\ UNCHANGED <<ringvars, hist, age, given, pipevars>>

Get ==
    \E l \in Labels :
        \E r \in get(l) :
            /\ ret' = [op |-> "get", args |-> <<l>>, err |-> r.err, val |-> r.val]
            /\ UNCHANGED <<ringvars, idxvars, hist, age, written, given, pipevars, budget, call>>

NextAdd == AddOnly \/ Get

SpecAdd == InitIndex(MaxOps + 1) /\ [][NextAdd]_vars

(***************************************************************************)
(* Properties of the index.                                                *)
(***************************************************************************)
Added == {l \in Labels : written[l] # Uninit}

\* The group id stored for label m.
tag_of(m) == groups[index_in(labels, m) + 1]

\* C4: after any sequence of non-strict adds (no label twice in one call),
\* size() is the number of distinct labels added and get(l) returns the
\* vector last written for l.
C4_AddThenGet ==
    /\ size = Cardinality(Added)
    /\ \A l \in Added : get(l) = {[err |-> "none", val |-> <<written[l]>>]}
    /\ ret.op = "get" =>
          IF ret.args[1] \in Added
          THEN ret.err = "none" /\ ret.val = <<written[ret.args[1]]>>
          ELSE ret.err = "ValueError"

\* A label written twice with different vectors, and read back, beside
\* another label.
C4_Witness ==
    /\ ret.op = "get"
    /\ ret.err = "none"
    /\ size >= 2
    /\ budget < MaxOps
    /\ \E l \in Added : written[l] # ret.val[1]

\* C6: remove(l) of a present label l succeeds, l is no longer contained,
\* size() is one less, and every other present label m still has its vector
\* and its group tag.
C6_RemoveKeepsOthers ==
    [][\A l \in Labels :
          (InList(labels, l) /\ remove({l})) =>
              /\ ret'.err = "none"
              /\ ~InList(labels', l)
              /\ Len(labels') = Len(labels) - 1
              /\ \A m \in SeqRange(labels) \ {l} :
                    /\ InList(labels', m)
                    /\ get(m)' = get(m)
                    /\ tag_of(m)' = tag_of(m)]_vars

\* C9: a strict add naming a label that is present fails with the
\* duplicate-label error and changes nothing: labels, rows, group cells, the
\* group registry and the capacity are as before.
C9_StrictAddAllOrNothing ==
    [][(call' # <<>> /\ \E i \in 1..Len(call'[1]) : InList(labels, call'[1][i]))
          => (ret'.err = "DuplicateLabel" /\ UNCHANGED idxvars)]_vars

\* A strict add of a present and of a novel label, with a group key the
\* registry has not seen, was refused.
C9_Witness ==
    /\ call # <<>>
    /\ ret.op = "add"
    /\ ret.err = "DuplicateLabel"
    /\ \E i, j \in 1..Len(call[1]) :
          InList(labels, call[1][i]) /\ ~InList(labels, call[1][j])
    /\ call[2] = "g"
    /\ "g" \notin Keys(grpids)

\* C10: remove(l) of a present label followed by add(l, v) succeeds, adds l
\* as a novel label (size() is back to its value before the remove), and
\* get(l) then returns v.
C10_LabelReuse ==
    [][\A l \in Labels, v \in VecVals :
          (/\ ret.op = "remove" /\ ret.err = "none" /\ call = <<{l}>>
           /\ l \in lset /\ ~InList(labels, l)
           /\ \E grp \in GroupArgs(1) : add(<<l>>, <<v>>, grp, FALSE))
              => /\ ret'.err = "none"
                 /\ Len(labels') = Len(labels) + 1
                 /\ get(l)' = {[err |-> "none", val |-> <<v>>]}]_vars

(***************************************************************************)
(* The earlier TorchVectorIndex (src/index.py): a plain label list, integer *)
(* group tags, max_size kept equal to the rows allocated, and compress.     *)
(* It uses labels, values and groups; lset and grpids stay empty.           *)
(***************************************************************************)
MaxLog == 3

\* __init__ asserts log2(max_size) % 1 == 0: the sizes 1, 2, 4, ...
RECURSIVE pow2(_)
pow2(n) == IF n = 0 THEN 1 ELSE 2 * pow2(n - 1)

LegacySizes == {pow2(n) : n \in 0..MaxLog}

\* The integer tags a caller passes as groups; -1 is the default.
LegacyTags == {-1, 0}

LegacyRet(op, e) == ret' = [op |-> op, args |-> <<>>, err |-> e, val |-> <<>>]

\* resize_alloc(a, n): a prefix is kept, new rows are unwritten.
resize_alloc(s, n, blank) == [i \in 1..n |-> IF i <= Len(s) THEN s[i] ELSE blank]

\* compress: size = max(min_size, next_power_of_2(self.size())).
compress_size(min_size) == Max(min_size, next_power_of_2(size))

\* TorchVectorIndex.compress(min_size); log2(0) raises on an empty index.
compress(min_size) ==
    IF size = 0
    THEN /\ LegacyRet("compress", "ValueError")
         /\ UNCHANGED idxvars
    ELSE /\ IF compress_size(min_size) < capacity
            THEN /\ values' = resize_alloc(values, compress_size(min_size), Uninit)
                 /\ groups' = resize_alloc(groups, compress_size(min_size), NoTag)
            ELSE UNCHANGED <<values, groups>>
         /\ UNCHANGED <<labels, lset, grpids>>
         /\ LegacyRet("compress", "none")

\* TorchVectorIndex.add(labs, vecs, groups, strict) with groups an integer.
index_add(labs, vecs, tag, strict) ==
    LET nlabs    == Len(labs)
        slabs    == SeqRange(labs)
        exist    == slabs \cap SeqRange(labels)
        novel    == slabs \ exist
        xlocs    == Positions(labs, novel)
        xlabs    == [i \in 1..Len(xlocs) |-> labs[xlocs[i]]]
        nlabels0 == size
        nlabels1 == nlabels0 + Cardinality(novel)
        cap1     == IF novel # {} /\ next_power_of_2(nlabels1) > capacity
                    THEN next_power_of_2(nlabels1) ELSE capacity
        slot_of(j) == {i \in 1..nlabs : labs[i] \in exist /\ index_in(labels, labs[i]) + 1 = j}
        inrange(j) == novel # {} /\ j > nlabels0 /\ j <= nlabels1
        values1  == resize_alloc(values, cap1, Uninit)
        groups1  == resize_alloc(groups, cap1, NoTag)
    IN
    IF Len(vecs) # nlabs \/ (\E i \in 1..Len(vecs) : Len(vecs[i]) # dims)
    THEN LegacyRet("add", "AssertionError") /\ UNCHANGED idxvars
    ELSE IF strict /\ exist # {}
    THEN LegacyRet("add", "Exception") /\ UNCHANGED idxvars
    ELSE /\ labels' = labels \o xlabs
         /\ values' = [j \in 1..cap1 |->
                          IF slot_of(j) # {} THEN vecs[CHOOSE i \in slot_of(j) : TRUE]
                          ELSE IF inrange(j) THEN vecs[xlocs[j - nlabels0]]
                          ELSE values1[j]]
         /\ groups' = [j \in 1..cap1 |->
                          IF slot_of(j) # {} \/ inrange(j) THEN tag ELSE groups1[j]]
         /\ UNCHANGED <<lset, grpids>>
         /\ LegacyRet("add", "none")

\* TorchVectorIndex.remove(labs): the first turn of the loop pops the label,
\* copies the row at the new size over its row, and then indexes the
\* one-dimensional groups with two indices, which raises IndexError.
index_remove(labs) ==
    LET todo == labs \cap SeqRange(labels)
    IN  IF todo = {}
        THEN LegacyRet("remove", "none") /\ UNCHANGED idxvars
        ELSE \E lab \in todo :
                LET idx    == index_in(labels, lab)
                    popped == pop_at(labels, idx)
                IN  /\ labels' = popped
                    /\ \E v \in ReadVec(values[Len(popped) + 1]) :
                          values' = [values EXCEPT ![idx + 1] = v]
                    /\ UNCHANGED <<groups, lset, grpids>>
                    /\ LegacyRet("remove", "IndexError")

\* TorchVectorIndex.__init__(dims, max_size).
InitLegacy ==
    /\ labels = <<>>
    /\ lset = {}
    /\ grpids = {}
    /\ \E n \in LegacySizes :
          /\ values = [j \in 1..n |-> Uninit]
          /\ groups = [j \in 1..n |-> NoTag]
    /\ written = NoWritten
    /\ budget = MaxOps + 1
    /\ call = <<>>
    /\ given = {}
    /\ NoPipe
    /\ ret = [op |-> "init", args |-> <<>>, err |-> "none", val |-> <<>>]
    /\ NoRing

LegacyAdd ==
    /\ budget > 0
    /\ \E labs \in LabLists, strict \in BOOLEAN, tag \in LegacyTags :
          \E vecs \in VecArgs(Len(labs)) \cup BadVecArgs(Len(labs)) :
              index_add(labs, vecs, tag, strict)
    /\ budget' = budget - 1
    /\ call' = <<>>
    /\ UNCHANGED <<ringvars, hist, age, written, given, pipevars>>

LegacyRemove ==
    /\ budget > 0
    /\ \E labs \in (SUBSET Labels) \ {{}} : index_remove(labs)
    /\ budget' = budget - 1
    /\ call' = <<>>
    /\ UNCHANGED <<ringvars, hist, age, written, given, pipevars>>

\* compress(min_size), with the requested floor recorded in call.
Compress ==
    /\ budget > 0
    /\ \E min_size \in 1..pow2(MaxLog) :
          /\ compress(min_size)
          /\ call' = <<min_size>>
    /\ budget' = budget - 1
    /\ UNCHANGED <<ringvars, hist, age, written, given, pipevars>>

NextLegacy == LegacyAdd \/ LegacyRemove \/ Compress

SpecLegacy == InitLegacy /\ [][NextLegacy]_vars

\* C5: the capacity is always a power of two and at least size(); no add
\* and no remove decreases it; only compress decreases it, to
\* max(requested floor, next_power_of_2(size)).
C5_CapacityPowerOfTwo ==
    /\ [](next_power_of_2(capacity) = capacity /\ capacity >= size)
    /\ [][capacity' < capacity =>
             (ret'.op = "compress" /\ capacity' = Max(call'[1], next_power_of_2(size)))]_vars

(***************************************************************************)
(* HistoryDatabase (src/agent.py): a FiniteList of (meta, text) pairs, the  *)
(* age of every slot, and a TorchVectorIndex (src/ziggy/index.py) whose     *)
(* labels are ring positions.  Scores are kept as integers: the discount    *)
(* exp(-disc * a) is taken at disc = ln 2 and every score and cutoff is     *)
(* scaled by 2^MaxAge.                                                      *)
(***************************************************************************)
MaxLen == 3

MaxAge == 2

MaxK == 3

\* The texts appended and queried, and embed.embed of each.
Texts == {"a", "b", "ab"}

embed(t) == IF t = "a" THEN <<1, 0>> ELSE IF t = "b" THEN <<0, 1>> ELSE <<1, 1>>

RECURSIVE dot_upto(_, _, _)
dot_upto(a, b, n) == IF n = 0 THEN 0 ELSE a[n] * b[n] + dot_upto(a, b, n - 1)

dot(a, b) == dot_upto(a, b, dims)

\* What a read of the rows at slots (from 0) can return.
ReadRows(slots) ==
    LET n == Len(slots)
    IN  {f \in [1..n -> UNION {ReadVec(values[slots[j] + 1]) : j \in 1..n}] :
            \A j \in 1..n : f[j] \in ReadVec(values[slots[j] + 1])}

\* What a read of the first n group cells can return.
ReadTags(n) ==
    {f \in [1..n -> UNION {ReadTag(groups[j]) : j \in 1..n}] :
        \A j \in 1..n : f[j] \in ReadTag(groups[j])}

\* QuantizedEmbedding.similarity(vec, mask): the dot product of vec with
\* the rows at slots; an integer mask n stands for the slots 0..n-1.
similarity(vec, slots) ==
    {[j \in 1..Len(slots) |-> dot(vec, rows[j])] : rows \in ReadRows(slots)}

\* TorchVectorIndex.simil(vecs) for one vector: mask = size().
simil(vec) == similarity(vec, [j \in 1..size |-> j - 1])

\* Tensor.topk(k1) on the scores sc, 0 <= k1 <= Len(sc): the positions (from
\* 1) of k1 largest scores, largest first; equal scores come in any order.
topk(sc, k1) ==
    {t \in [1..k1 -> 1..Len(sc)] :
        /\ \A i, j \in 1..k1 : i # j => t[i] # t[j]
        /\ \A i \in 1..(k1 - 1) : sc[t[i]] >= sc[t[i + 1]]
        /\ \A j \in 1..Len(sc) :
              (\A i \in 1..k1 : t[i] # j) => \A i \in 1..k1 : sc[j] <= sc[t[i]]}

\* disco(a) = exp(-disc * a), scaled.
disco(a) == pow2(MaxAge - a)

\* A gather that also drops the ages that are 0.
live_ages_strict == SelectSeq(age, LAMBDA a : a > 0)

\* self.age[self.age >= 0]: the ages of the written slots, in slot order.
live_ages == SelectSeq(age, LAMBDA a : a >= 0)

\* The decayed scores sim = disco(age) * sim0 that search ranks.
decayed(sim0) == [j \in 1..Len(sim0) |-> disco(live_ages[j]) * sim0[j]]

\* HistoryDatabase.search(query, k, disc, cutoff): [out, idxs], out the
\* pairs returned and idxs the winning slots (from 0) kept by the cutoff.
HistoryDatabase_search(query, k, cutoff) ==
    IF Len(data) = 0
    THEN {[err |-> "none", out |-> <<>>, idxs |-> <<>>]}
    ELSE {LET idxs == [i \in 1..Len(kept) |-> tops[kept[i]] - 1]
          IN  [err |-> getitem_list(idxs).err, out |-> getitem_list(idxs).val, idxs |-> idxs] :
              <<tops, kept>> \in
                  UNION {{<<t, Positions(t, {j \in 1..Len(sim0) : decayed(sim0)[j] > cutoff})>> :
                              t \in topk(decayed(sim0), Min(k, Len(data)))} :
                         sim0 \in simil(embed(query))}}

\* A step that also counts up the slots never written.
step_all == age' = [j \in 1..Len(age) |-> age[j] + 1]

\* HistoryDatabase.step.
step == age' = [j \in 1..Len(age) |-> IF age[j] >= 0 THEN age[j] + 1 ELSE age[j]]

\* TorchVectorIndex.search(vec, k, groups) for one vector.  grp is None, or
\* Some of [many, keys] as in add.  The outcomes are [err, labs, sims].
search(vec, k, grp) ==
    LET num == size
        k1  == Min(k, num)
        Fail(e) == [err |-> e, labs |-> <<>>, sims |-> <<>>]
        Tops(slots, labs) ==
            {[err |-> "none",
              labs |-> [i \in 1..k1 |-> labs[t[i]]],
              sims |-> [i \in 1..k1 |-> sims[t[i]]]] :
                  <<sims, t>> \in UNION {{<<sm, tp>> : tp \in topk(sm, k1)} :
                                            sm \in similarity(vec, slots)}}
    IN
    IF IsNone(grp)
    THEN Tops([j \in 1..num |-> j - 1], labels)
    ELSE IF \E i \in 1..Len(grp[1].keys) : grp[1].keys[i] \notin Keys(grpids)
    THEN {Fail("KeyError")}
    ELSE UNION {
        LET ids   == {GidOf(grpids, grp[1].keys[i]) : i \in 1..Len(grp[1].keys)}
            match == SelectSeq([j \in 1..num |-> j], LAMBDA j : tags[j] \in ids)
        IN  IF Len(match) = 1
            THEN {Fail("TypeError")}       \* squeeze left a 0-d tensor: no iteration
            ELSE IF k1 > Len(match)
            THEN {Fail("RuntimeError")}    \* topk: k out of range
            ELSE Tops([j \in 1..Len(match) |-> match[j] - 1],
                      [j \in 1..Len(match) |-> labels[match[j]]]) :
        tags \in ReadTags(num)}

\* HistoryDatabase.__init__(embed, maxlen); the run may make calls more calls.
HistInit(calls) ==
    /\ max \in 1..MaxLen
    /\ pos = 0
    /\ data = <<>>
    /\ hist = <<>>
    /\ age = [j \in 1..max |-> -1]
    /\ labels = <<>>
    /\ lset = {}
    /\ grpids = {}
    /\ values = [j \in 1..max |-> Uninit]
    /\ groups = [j \in 1..max |-> NoTag]
    /\ written = NoWritten
    /\ budget = calls
    /\ call = <<>>
    /\ given = {}
    /\ NoPipe
    /\ ret = [op |-> "init", args |-> <<>>, err |-> "none", val |-> <<>>]

InitHist == HistInit(MaxOps + 2)

\* An append that labels the embedding by the length of the ring.
HistoryDatabase_append_len(item) ==
    /\ age' = [age EXCEPT ![pos + 1] = 0]
    /\ add(<<Len(data)>>, <<embed(item.txt)>>, DefaultGroup, FALSE)
    /\ IF ret'.err = "none"
       THEN FiniteList_append(item) /\ hist' = Append(hist, item)
       ELSE UNCHANGED <<pos, data, hist>>

\* HistoryDatabase.append(txt, meta) for item = (meta, txt).  ret holds the
\* outcome of the add it makes; the ring is written if the add returned.
HistoryDatabase_append(item) ==
    /\ age' = [age EXCEPT ![pos + 1] = 0]
    /\ add(<<pos>>, <<embed(item.txt)>>, DefaultGroup, FALSE)
    /\ IF ret'.err = "none"
       THEN FiniteList_append(item) /\ hist' = Append(hist, item)
       ELSE UNCHANGED <<pos, data, hist>>

\* An append of any text; meta numbers the calls.
HistAppend ==
    /\ budget > 0
    /\ \E txt \in Texts : HistoryDatabase_append([meta |-> Len(hist) + 1, txt |-> txt])
    /\ budget' = budget - 1
    /\ call' = <<>>
    /\ UNCHANGED <<max, written, given, pipevars>>

HistStep ==
    /\ budget > 0
    /\ \A j \in 1..Len(age) : age[j] < MaxAge
    /\ step
    /\ ret' = [op |-> "step", args |-> <<>>, err |-> "none", val |-> <<>>]
    /\ budget' = budget - 1
    /\ call' = <<>>
    /\ UNCHANGED <<ringvars, idxvars, hist, written, given, pipevars>>

\* The cutoffs of a search: 0.0 (the default) and 1.0.
Cutoffs == {0, pow2(MaxAge)}

HistSearch ==
    /\ budget > 0
    /\ \E query \in Texts, k \in 0..MaxK, cutoff \in Cutoffs :
          \E r \in HistoryDatabase_search(query, k, cutoff) :
              ret' = [op |-> "search", args |-> <<query, k, cutoff>>, err |-> r.err,
                      val |-> [out |-> r.out, idxs |-> r.idxs]]
    /\ budget' = budget - 1
    /\ call' = <<>>
    /\ UNCHANGED <<ringvars, idxvars, hist, age, written, given, pipevars>>

\* The groups of an index search: no filter, one key (not None, which is no
\* filter), a list of keys.
SearchGroups ==
    {None} \cup {Some([many |-> FALSE, keys |-> <<"g">>])}
           \cup {Some([many |-> TRUE, keys |-> <<"None">>])}

IndexSearch ==
    /\ budget > 0
    /\ \E query \in Texts, k \in 0..MaxK, grp \in SearchGroups :
          \E r \in search(embed(query), k, grp) :
              ret' = [op |-> "index_search", args |-> <<query, k>>, err |-> r.err,
                      val |-> [labs |-> r.labs, sims |-> r.sims]]
    /\ budget' = budget - 1
    /\ call' = <<>>
    /\ UNCHANGED <<ringvars, idxvars, hist, age, written, given, pipevars>>

NextHist == HistAppend \/ HistStep \/ HistSearch \/ IndexSearch

SpecHist == InitHist /\ [][NextHist]_vars

\* The slot (from 1) that holds the pair item, and the decayed score of the
\* entry there for a query.
SlotOf(item) == CHOOSE j \in 1..Len(data) : data[j] = item

ScoreOf(item, query) == disco(age[SlotOf(item)]) * dot(embed(query), embed(item.txt))

\* C7: every pair that search returns is the pair last appended at the ring
\* position of the winning slot it stands for, the text that was embedded
\* into that slot.
C7_SearchPairing ==
    (ret.op = "search" /\ ret.err = "none") =>
        /\ Len(ret.val.out) = Len(ret.val.idxs)
        /\ \A m \in 1..Len(ret.val.out) :
              /\ ret.val.out[m] = data[ret.val.idxs[m] + 1]
              /\ embed(ret.val.out[m].txt) = values[ret.val.idxs[m] + 1]

\* C8: search returns at most min(k, n) pairs, in non-increasing order of
\* their decayed score, none with a decayed score <= cutoff, and nothing on
\* an empty store; an index search returns at most min(k, size()) labels in
\* non-increasing order of score.
C8_SearchBounds ==
    /\ (ret.op = "search" /\ ret.err = "none") =>
          LET out == ret.val.out
              q   == ret.args[1]
          IN  /\ Len(out) <= Min(ret.args[2], Len(data))
              /\ \A m \in 1..(Len(out) - 1) : ScoreOf(out[m], q) >= ScoreOf(out[m + 1], q)
              /\ \A m \in 1..Len(out) : ScoreOf(out[m], q) > ret.args[3]
              /\ (Len(data) = 0 => out = <<>>)
    /\ (ret.op = "index_search" /\ ret.err = "none") =>
          /\ Len(ret.val.labs) <= Min(ret.args[2], size)
          /\ \A m \in 1..(Len(ret.val.sims) - 1) : ret.val.sims[m] >= ret.val.sims[m + 1]

(***************************************************************************)
(* The index under calls that name a label more than once.                 *)
(***************************************************************************)
\* The label lists that name some label twice.
RepLists ==
    {ls \in UNION {[1..n -> Labels] : n \in 2..MaxBatch} :
        \E i, j \in 1..Len(ls) : i # j /\ ls[i] = ls[j]}

AddRepeated ==
    /\ budget > 0
    /\ \E labs \in RepLists :
          \E vecs \in VecArgs(Len(labs)), grp \in GroupArgs(Len(labs)) :
              add(labs, vecs, grp, FALSE)
    /\ budget' = budget - 1
    /\ call' = <<>>
    /\ UNCHANGED <<ringvars, hist, age, written, given, pipevars>>

NextRep == Add \/ AddRepeated \/ RemovePlain

SpecRep == InitIndex(MaxOps) /\ [][NextRep]_vars

\* C11: no label occurs at two slots, and size() is the number of distinct
\* live labels.
C11_LabelUniqueness ==
    /\ \A i, j \in 1..Len(labels) : i # j => labels[i] # labels[j]
    /\ size = Cardinality(SeqRange(labels))

(***************************************************************************)
(* The index under add, remove and clear, with the group ids ever given    *)
(* recorded in given.                                                      *)
(***************************************************************************)
GroupAdd ==
    /\ budget > 0
    /\ \E labs \in LabLists :
          \E grp \in GroupArgs(Len(labs)) :
              add(labs, VecRows(Len(labs), <<1, 0>>), grp, FALSE)
    /\ given' = given \cup grpids'
    /\ budget' = budget - 1
    /\ call' = <<>>
    /\ UNCHANGED <<ringvars, hist, age, written, pipevars>>

Clear ==
    /\ budget > 0
    /\ \E zero \in BOOLEAN : clear(zero)
    /\ budget' = budget - 1
    /\ call' = <<>>
    /\ UNCHANGED <<ringvars, hist, age, written, given, pipevars>>

NextGroups == GroupAdd \/ RemovePlain \/ Clear

SpecGroups == InitIndex(MaxOps + 1) /\ [][NextGroups]_vars

\* C12: a key keeps the id it was first given, no id is ever given to two
\* keys, two keys of the registry never share an id, and the ids in use are
\* 0..(number of keys seen)-1.
C12_GroupIdsStable ==
    /\ \A p, q \in given : p[1] = q[1] => p[2] = q[2]
    /\ \A p, q \in given : p[2] = q[2] => p[1] = q[1]
    /\ \A p, q \in grpids : p[2] = q[2] => p[1] = q[1]
    /\ {p[2] : p \in grpids} = 0..(Cardinality(Keys(given)) - 1)

(***************************************************************************)
(* Reads of one logical index of the ring (SpecRing).                      *)
(***************************************************************************)
\* C13: a read of logical index i, 0 <= i < size, returns the (i+1)-th most
\* recently appended item.
C13_BackwardAddressing ==
    (ret.op = "getitem" /\ ret.args[1] >= 0 /\ ret.args[1] < Len(data)) =>
        /\ ret.err = "none"
        /\ ret.val = <<hist[Len(hist) - ret.args[1]]>>

\* A ring that wrapped around was read at an index other than 0.
C13_Witness ==
    /\ ret.op = "getitem"
    /\ ret.err = "none"
    /\ ret.args[1] > 0
    /\ Len(hist) > max + 1
    /\ pos # 0

\* C14: a read of logical index i outside 0 <= i < size (i >= size, i < 0,
\* any i on an empty buffer) fails with an out-of-range error, returns no
\* item and leaves the buffer unchanged.
C14_OutOfRange ==
    [][(ret'.op = "getitem" /\ (ret'.args[1] < 0 \/ ret'.args[1] >= Len(data))) =>
          (ret'.err = "IndexError" /\ ret'.val = <<>> /\ UNCHANGED ringvars)]_vars

\* C14 as amended: a read of i >= size or i < -size (any i on an empty
\* buffer) fails with an out-of-range error, returns no item and leaves the
\* buffer unchanged; a read of -size <= i < 0 returns what i + size reads,
\* so -1 reads the oldest item.
C14_OutOfRangeAmended ==
    [][ret'.op = "getitem" =>
          LET i == ret'.args[1]
              n == Len(data)
          IN  /\ UNCHANGED ringvars
              /\ (i >= n \/ i < 0 - n) => (ret'.err = "IndexError" /\ ret'.val = <<>>)
              /\ (i < 0 /\ i >= 0 - n) =>
                    (ret'.err = "none" /\ ret'.val = <<hist[Len(hist) - (i + n)]>>)]_vars

\* Reads were refused above and below the range, and -size read the oldest
\* item of a ring that wrapped around.
C14_Witness ==
    /\ ret.op = "getitem"
    /\ ret.err = "none"
    /\ ret.args[1] = 0 - Len(data)
    /\ Len(hist) > max
    /\ pos # 0

(***************************************************************************)
(* The index under adds and removes, the last call of the run an add whose *)
(* vectors have the wrong shape, recorded in call.                         *)
(***************************************************************************)
AddBadShapeLast ==
    /\ budget > 0
    /\ \E labs \in LabLists :
          \E vecs \in BadVecArgs(Len(labs)), grp \in GroupArgs(Len(labs)), strict \in BOOLEAN :
              /\ add(labs, vecs, grp, strict)
              /\ call' = <<labs, vecs>>
    /\ budget' = 0
    /\ UNCHANGED <<ringvars, hist, age, written, given, pipevars>>

NextShape == Add \/ RemovePlain \/ AddBadShapeLast

SpecShape == InitIndex(MaxOps) /\ [][NextShape]_vars

\* C15: an add whose vectors are not of the index's dimensionality, or not
\* as many as its labels, fails and leaves labels, rows, group tags, group
\* registry and capacity unchanged.
C15_DimensionCheck ==
    [][(call' # <<>> /\ (\/ Len(call'[2]) # Len(call'[1])
                         \/ \E i \in 1..Len(call'[2]) : Len(call'[2][i]) # dims))
          => (ret'.op = "add" /\ ret'.err = "AssertionError" /\ UNCHANGED idxvars)]_vars

\* An add of a new label and a new group key, with rows of the wrong
\* dimensionality, was refused by an index that holds labels.
C15_Witness ==
    /\ call # <<>>
    /\ ret.err = "AssertionError"
    /\ labels # <<>>
    /\ Len(call[2]) = Len(call[1])
    /\ \E i \in 1..Len(call[1]) : ~InList(labels, call[1][i])
    /\ "g" \notin Keys(grpids)

(***************************************************************************)
(* Snapshots of the earlier index (src/index.py): save, and load through   *)
(* the constructor or into the index itself.                               *)
(***************************************************************************)
\* TorchVectorIndex.save(): the labels and the first size() rows and cells.
index_save == [labels |-> labels, values |-> SubSeq(values, 1, size), groups |-> SubSeq(groups, 1, size)]

\* TorchVectorIndex(max_size, load=d): load runs inside __init__, before
\* groups is allocated.  next_power_of_2(0) raises on an empty snapshot;
\* otherwise the write into self.groups raises AttributeError.  No index
\* comes out of either.
index_load_new(d) ==
    /\ ret' = [op |-> "load", args |-> <<>>,
               err |-> IF Len(d.labels) = 0 THEN "ValueError" ELSE "AttributeError",
               val |-> <<>>]
    /\ UNCHANGED idxvars

\* self.load(d) on an index that exists: max_size = max(max_size,
\* next_power_of_2(size)), values are allocated anew and filled, groups
\* keeps its cells and takes the saved ones.
index_load_into(d) ==
    LET n    == Len(d.labels)
        cap1 == Max(capacity, next_power_of_2(n))
    IN  IF n = 0
        THEN LegacyRet("load", "ValueError") /\ UNCHANGED idxvars
        ELSE /\ labels' = d.labels
             /\ values' = [j \in 1..cap1 |-> IF j <= n THEN d.values[j] ELSE Uninit]
             /\ IF n > Len(groups)
                THEN LegacyRet("load", "RuntimeError") /\ UNCHANGED groups
                ELSE /\ groups' = [j \in 1..Len(groups) |-> IF j <= n THEN d.groups[j] ELSE groups[j]]
                     /\ LegacyRet("load", "none")
             /\ UNCHANGED <<lset, grpids>>

\* TorchVectorIndex(load=self.save()).
LegacyLoadNew ==
    /\ budget > 0
    /\ index_load_new(index_save)
    /\ budget' = budget - 1
    /\ call' = <<>>
    /\ UNCHANGED <<ringvars, hist, age, written, given, pipevars>>

\* self.load(self.save()).
LegacyLoadInto ==
    /\ budget > 0
    /\ index_load_into(index_save)
    /\ budget' = budget - 1
    /\ call' = <<>>
    /\ UNCHANGED <<ringvars, hist, age, written, given, pipevars>>

NextSnapshot == LegacyAdd \/ LegacyRemove \/ LegacyLoadNew \/ LegacyLoadInto

SpecSnapshot == InitLegacy /\ [][NextSnapshot]_vars

\* C16: load(save()) yields an index with the same label sequence, the same
\* group ids at the slots [0, size), the same size, and capacity >= size.
C16_SnapshotRoundTrip ==
    [][ret'.op = "load" =>
          /\ ret'.err = "none"
          /\ labels' = labels
          /\ \A j \in 1..size : groups'[j] = groups[j]
          /\ Len(values') >= Len(labels')]_vars

(***************************************************************************)
(* The cursor and the cells of the ring (SpecRing).                        *)
(***************************************************************************)
\* C17: after n appends size = min(n, C), pos = n mod C and 0 <= pos < C; an
\* append below capacity stores the item at the end of data, an append at
\* capacity overwrites the cell at pos, which holds the oldest item, and no
\* other cell; every append advances pos by one modulo C.
C17_CursorAndSize ==
    /\ [](/\ Len(data) = Min(Len(hist), max)
          /\ pos = Len(hist) % max
          /\ pos >= 0 /\ pos < max)
    /\ [][ret'.op = "append" =>
             /\ pos' = (pos + 1) % max
             /\ IF Len(data) < max
                THEN data' = Append(data, ret'.args[1])
                ELSE /\ data[pos + 1] = hist[Len(hist) - max + 1]
                     /\ Len(data') = Len(data)
                     /\ data'[pos + 1] = ret'.args[1]
                     /\ \A j \in 1..Len(data) : j # pos + 1 => data'[j] = data[j]]_vars

\* An append overwrote a cell in the middle of a full ring.
C17_Witness ==
    /\ ret.op = "append"
    /\ Len(hist) > max
    /\ max > 2
    /\ pos = 2

(***************************************************************************)
(* HistoryDatabase under append and step alone, every call logged in hist: *)
(* an append logs its (meta, text) pair, a step a pair whose text is       *)
(* "step".                                                                 *)
(***************************************************************************)
HistStepLog ==
    /\ budget > 0
    /\ step
    /\ hist' = Append(hist, [meta |-> Len(hist) + 1, txt |-> "step"])
    /\ ret' = [op |-> "step", args |-> <<>>, err |-> "none", val |-> <<>>]
    /\ budget' = budget - 1
    /\ call' = <<>>
    /\ UNCHANGED <<ringvars, idxvars, written, given, pipevars>>

NextHistCore == HistAppend \/ HistStepLog

SpecHistCore == HistInit(MaxLen + MaxOps) /\ [][NextHistCore]_vars

\* The appends among the first i calls, and among all.
AppendsUpto(i) == Cardinality({j \in 1..i : hist[j].txt # "step"})

NumAppends == AppendsUpto(Len(hist))

\* The call that last appended at ring position p (from 0): the k-th append
\* writes position (k - 1) mod C.
LastAppendAt(p) ==
    CHOOSE i \in 1..Len(hist) :
        /\ hist[i].txt # "step"
        /\ (AppendsUpto(i) - 1) % max = p
        /\ \A j \in (i + 1)..Len(hist) :
              hist[j].txt # "step" => (AppendsUpto(j) - 1) % max # p

StepsSince(i) == Cardinality({j \in (i + 1)..Len(hist) : hist[j].txt = "step"})

\* C18: after n appends the index holds exactly the labels 0..min(n, C)-1,
\* label p at slot p, and size() is the ring size, at most C; an append to a
\* full ring updates: no new label, no slot change, no growth.
C18_LabelIsRingPosition ==
    /\ [](/\ labels = [j \in 1..Min(NumAppends, max) |-> j - 1]
          /\ size = Len(data)
          /\ size <= max)
    /\ [][(ret'.op = "add" /\ Len(data) = max) =>
             (ret'.err = "none" /\ labels' = labels /\ lset' = lset /\ capacity' = capacity)]_vars

\* An append to a ring of three or more cells that had wrapped around.
C18_Witness ==
    /\ ret.op = "add"
    /\ ret.err = "none"
    /\ max >= 3
    /\ NumAppends > max + 1

\* C19: age[p] is the sentinel exactly while p was never written and never
\* returns to it; append zeroes the age of the position it writes and
\* changes no other; step adds 1 to every age that is not the sentinel; so
\* age[p] is the number of steps since the last append at p.
C19_AgeCounters ==
    /\ [](\A p \in 0..(max - 1) :
             IF NumAppends > p
             THEN age[p + 1] = StepsSince(LastAppendAt(p))
             ELSE age[p + 1] = -1)
    /\ [][/\ \A j \in 1..Len(age) : age[j] # -1 => age'[j] # -1
          /\ ret'.op = "add" => age' = [age EXCEPT ![pos + 1] = 0]
          /\ ret'.op = "step" =>
                age' = [j \in 1..Len(age) |-> IF age[j] = -1 THEN -1 ELSE age[j] + 1]]_vars

\* A step on a store with a slot never written, a slot written once and a
\* slot written again after steps.
C19_Witness ==
    /\ ret.op = "step"
    /\ \E p, q, r \in 1..Len(age) :
          /\ age[p] = -1
          /\ age[q] >= 2
          /\ age[r] = 1

(***************************************************************************)
(* The compaction of remove (Spec).                                        *)
(***************************************************************************)
\* C20: remove(l) of the label at slot i of an index of size s moves the
\* row and the tag of slot s-1 into slot i and the label of slot s-1 to
\* slot i, leaves every other label at its slot with its row and tag, and
\* leaves s-1 labels; what it writes comes from slots below s.
C20_RemoveCompaction ==
    [][\A l \in Labels :
          (InList(labels, l) /\ remove({l})) =>
              LET i == index_in(labels, l) + 1
                  s == size
              IN  /\ ret'.err = "none"
                  /\ Len(labels') = s - 1
                  /\ i < s => /\ labels'[i] = labels[s]
                              /\ values'[i] = values[s]
                              /\ groups'[i] = groups[s]
                  /\ \A j \in 1..(s - 1) :
                        j # i => /\ labels'[j] = labels[j]
                                 /\ values'[j] = values[j]
                                 /\ groups'[j] = groups[j]]_vars

(***************************************************************************)
(* The frame of a non-strict add (Spec).                                   *)
(***************************************************************************)
\* The key given for the i-th label of a call.
KeyAt(grp, i) == IF grp.many THEN grp.keys[i] ELSE grp.keys[1]

\* C21: a non-strict add succeeds; every label of the call that is present
\* keeps its slot and takes the row and the tag given at its input
\* position; the labels that are not present are appended in input order
\* at the slots size, size+1, ... with the row and tag of their positions;
\* every label the call does not name keeps slot, row and tag.
C21_AddFrame ==
    [][\A labs \in LabLists :
          \A vecs \in VecArgs(Len(labs)), grp \in GroupArgs(Len(labs)) :
              add(labs, vecs, grp, FALSE) =>
                  LET isnew(x) == ~InList(labels, x)
                      xlocs == SelectSeq([i \in 1..Len(labs) |-> i], LAMBDA i : isnew(labs[i]))
                  IN  /\ ret'.err = "none"
                      /\ labels' = labels \o [j \in 1..Len(xlocs) |-> labs[xlocs[j]]]
                      /\ \A i \in 1..Len(labs) :
                            LET slot == index_in(labels', labs[i]) + 1
                            IN  /\ values'[slot] = vecs[i]
                                /\ groups'[slot] = GidOf(grpids', KeyAt(grp, i))
                      /\ \A j \in 1..Len(labels) :
                            labels[j] \notin SeqRange(labs) =>
                                (values'[j] = values[j] /\ groups'[j] = groups[j])]_vars

(***************************************************************************)
(* The index under adds and removes, the last call of the run a search     *)
(* with a group filter.                                                    *)
(***************************************************************************)
\* The filters of a search: one key that is not None (None is no filter), or
\* a list of keys.
GroupFilters ==
    {[many |-> FALSE, keys |-> <<"g">>]}
        \cup {[many |-> TRUE, keys |-> ks] : ks \in {<<"None">>, <<"g">>, <<"None", "g">>}}

SearchLast ==
    /\ budget > 0
    /\ \E vec \in VecVals, k \in 0..MaxK, grp \in GroupFilters :
          \E r \in search(vec, k, Some(grp)) :
              ret' = [op |-> "index_search", args |-> <<vec, k, grp>>, err |-> r.err,
                      val |-> [labs |-> r.labs, sims |-> r.sims]]
    /\ budget' = 0
    /\ call' = <<>>
    /\ UNCHANGED <<ringvars, idxvars, hist, age, written, given, pipevars>>

NextSearch == Add \/ RemovePlain \/ SearchLast

SpecSearch == InitIndex(MaxOps + 1) /\ [][NextSearch]_vars

\* The occupied slots (from 1) whose tag is the id of a key of the filter.
Matching(grp) ==
    {j \in 1..size : \E i \in 1..Len(grp.keys) : groups[j] = GidOf(grpids, grp.keys[i])}

\* C22: a search filtered by registered keys returns labels of matching
\* slots only, each with the score of its own slot, and the k best of them,
\* or all of them when fewer than k slots match.
C22_GroupFilteredSearch ==
    (/\ ret.op = "index_search"
     /\ \A i \in 1..Len(ret.args[3].keys) : ret.args[3].keys[i] \in Keys(grpids)) =>
        LET vec  == ret.args[1]
            m    == Matching(ret.args[3])
            labs == ret.val.labs
            sims == ret.val.sims
            slot(i) == index_in(labels, labs[i]) + 1
        IN  /\ ret.err = "none"
            /\ Len(labs) = Min(ret.args[2], Cardinality(m))
            /\ \A i, j \in 1..Len(labs) : i # j => labs[i] # labs[j]
            /\ \A i \in 1..Len(labs) :
                  /\ InList(labels, labs[i])
                  /\ slot(i) \in m
                  /\ sims[i] = dot(vec, values[slot(i)])
                  /\ \A j \in m : (\A h \in 1..Len(labs) : slot(h) # j) =>
                                      dot(vec, values[j]) <= sims[i]

\* The history under appends and steps alone, the ages within the range of
\* the decay.
NextDecay == HistAppend \/ HistStep

SpecDecay == InitHist /\ [][NextDecay]_vars

\* C23: the positions with an age other than -1 are the positions
\* 0..size-1 of the index and slot i holds position i, so the ages a search
\* gathers are as many as its raw similarities, the i-th is the age of slot
\* i, and the weight on the raw similarity of slot i is the decay of age[i].
C23_DecayAlignment ==
    /\ Len(live_ages) = size
    /\ {j \in 1..Len(age) : age[j] >= 0} = 1..size
    /\ \A j \in 1..size : labels[j] = j - 1
    /\ \A q \in Texts : \A sim0 \in simil(embed(q)) :
          /\ Len(sim0) = Len(live_ages)
          /\ \A j \in 1..Len(sim0) :
                /\ live_ages[j] = age[j]
                /\ decayed(sim0)[j] = disco(age[j]) * sim0[j]

\* The ring has wrapped and position 0 was rewritten after a step: the
\* ages differ from slot to slot and are not in the order of writing.
C23_Witness ==
    /\ size >= 2
    /\ Len(hist) > max
    /\ age[1] < age[2]

\* C24: the membership set of the label set holds exactly the labels of its
\* list, and intersection reports no label that the list does not hold.
C24_LabelSetConsistent ==
    /\ lset = SeqRange(labels)
    /\ \A labs \in SUBSET Labels : \A l \in intersection(labs) : InList(labels, l)

(***************************************************************************)
(* pipeline_threads (src/ziggy/utils.py): the calling thread loads the     *)
(* items, joins the queues, sets kill and joins the workers; each worker   *)
(* polls its queue, puts the result on the next and marks the task done.   *)
(* call holds the arguments: the number of items of load, the number of    *)
(* workers of each stage, and maxsize.                                     *)
(***************************************************************************)
MaxItems == 2
MaxStages == 2
MaxWorkers == 2
MaxThreads == 3
MaxQueue == 1

RECURSIVE SumSeq(_)
SumSeq(s) == IF s = <<>> THEN 0 ELSE Head(s) + SumSeq(Tail(s))

\* The worker counts (f, n) of the stages, zero stages and zero workers
\* included.
PipeShapes ==
    {ns \in UNION {[1..s -> 0..MaxWorkers] : s \in 0..MaxStages} : SumSeq(ns) <= MaxThreads}

\* The stage (from 1) of the t-th thread of chain(*threads).
RECURSIVE stage_of(_, _)
stage_of(ns, t) == IF t <= Head(ns) THEN 1 ELSE 1 + stage_of(Tail(ns), t - Head(ns))

nstages == Len(call.funcs)

\* A bound on every queue, the last included.
queue_maxsize_all(q) == call.maxsize

\* The maxsize of queue q (from 1) of queues; 0 is no bound.  The last
\* queue is Queue().
queue_maxsize(q) == IF q = nstages + 1 THEN 0 ELSE call.maxsize

\* Queue.full().
Queue_full(q) == queue_maxsize(q) > 0 /\ Len(queues[q]) >= queue_maxsize(q)

\* Queue.put(item), which waits while the queue is full.
Queue_put(q, item) ==
    /\ ~Queue_full(q)
    /\ queues' = [queues EXCEPT ![q] = Append(@, item)]
    /\ unfinished' = [unfinished EXCEPT ![q] = @ + 1]

\* The stage function of stage s: the item records the stage.
func(s, item) == [item EXCEPT !.trace = Append(@, s)]

\* The i-th item of load.
load_item(i) == [id |-> i, trace |-> <<>>]

\* The calling thread between the loop over load and the joins.
after_load(i) == IF i > call.load THEN [pc |-> "join", i |-> 1] ELSE [pc |-> "load", i |-> i]

\* pipeline_threads up to the start of the threads.
InitPipe ==
    /\ NoRing
    /\ labels = <<>>
    /\ lset = {}
    /\ grpids = {}
    /\ values = <<>>
    /\ groups = <<>>
    /\ written = <<>>
    /\ age = <<>>
    /\ given = {}
    /\ budget = 0
    /\ ret = [op |-> "init", args |-> <<>>, err |-> "none", val |-> <<>>]
    /\ \E n \in 0..MaxItems, m \in 0..MaxQueue, ns \in PipeShapes :
          /\ call = [load |-> n, funcs |-> ns, maxsize |-> m]
          /\ queues = [q \in 1..(Len(ns) + 1) |-> <<>>]
          /\ unfinished = [q \in 1..(Len(ns) + 1) |-> 0]
          /\ threads = [t \in 1..SumSeq(ns) |->
                           [stage |-> stage_of(ns, t), pc |-> "get", data |-> <<>>]]
    /\ kill = FALSE
    /\ main = after_load(1)

PipeFrame == UNCHANGED <<ringvars, idxvars, hist, age, written, given, budget, call>>

\* for i in load: queue_load.put(i)
MainLoad ==
    /\ main.pc = "load"
    /\ Queue_put(1, load_item(main.i))
    /\ main' = after_load(main.i + 1)
    /\ UNCHANGED <<kill, threads, ret>>
    /\ PipeFrame

\* for q in queues[:-1]: q.join()
MainJoin ==
    /\ main.pc = "join"
    /\ IF main.i > nstages
       THEN main' = [pc |-> "kill", i |-> 1]
       ELSE /\ unfinished[main.i] = 0
            /\ main' = [main EXCEPT !.i = @ + 1]
    /\ UNCHANGED <<queues, unfinished, kill, threads, ret>>
    /\ PipeFrame

\* kill.set()
MainKill ==
    /\ main.pc = "kill"
    /\ kill' = TRUE
    /\ main' = [pc |-> "wait", i |-> 1]
    /\ UNCHANGED <<queues, unfinished, threads, ret>>
    /\ PipeFrame

\* for t in chain(*threads): t.join()
MainWait ==
    /\ main.pc = "wait"
    /\ IF main.i > Len(threads)
       THEN main' = [pc |-> "return", i |-> 1]
       ELSE /\ threads[main.i].pc = "exit"
            /\ main' = [main EXCEPT !.i = @ + 1]
    /\ UNCHANGED <<queues, unfinished, kill, threads, ret>>
    /\ PipeFrame

\* return queue_work[-1].qsize()
MainReturn ==
    /\ main.pc = "return"
    /\ ret' = [op |-> "pipeline_threads", args |-> <<>>, err |-> "none",
               val |-> <<Len(queues[nstages + 1])>>]
    /\ main' = [pc |-> "done", i |-> 1]
    /\ UNCHANGED <<queues, unfinished, kill, threads>>
    /\ PipeFrame

Main == MainLoad \/ MainJoin \/ MainKill \/ MainWait \/ MainReturn

\* Thread t was started and is at position p of worker_thread.
at(t, p) == t \in DOMAIN threads /\ threads[t].pc = p

\* data = queue_prev.get(timeout=poll): an item, or Empty after the poll.
WorkerGet(t) ==
    /\ at(t, "get")
    /\ IF queues[threads[t].stage] # <<>>
       THEN /\ threads' = [threads EXCEPT ![t].pc = "put",
                                          ![t].data = Head(queues[threads[t].stage])]
            /\ queues' = [queues EXCEPT ![threads[t].stage] = Tail(@)]
       ELSE /\ threads' = [threads EXCEPT ![t].pc = "check"]
            /\ UNCHANGED queues
    /\ UNCHANGED <<unfinished, kill, main, ret>>
    /\ PipeFrame

\* queue_next.put(func(data))
WorkerPut(t) ==
    /\ at(t, "put")
    /\ Queue_put(threads[t].stage + 1, func(threads[t].stage, threads[t].data))
    /\ threads' = [threads EXCEPT ![t].pc = "task_done", ![t].data = <<>>]
    /\ UNCHANGED <<kill, main, ret>>
    /\ PipeFrame

\* queue_prev.task_done()
WorkerTaskDone(t) ==
    /\ at(t, "task_done")
    /\ unfinished' = [unfinished EXCEPT ![threads[t].stage] = @ - 1]
    /\ threads' = [threads EXCEPT ![t].pc = "check"]
    /\ UNCHANGED <<queues, kill, main, ret>>
    /\ PipeFrame

\* if kill.is_set(): break
WorkerCheck(t) ==
    /\ at(t, "check")
    /\ threads' = [threads EXCEPT ![t].pc = IF kill THEN "exit" ELSE "get"]
    /\ UNCHANGED <<queues, unfinished, kill, main, ret>>
    /\ PipeFrame

\* worker_thread, one step of thread t.
worker_thread(t) == WorkerGet(t) \/ WorkerPut(t) \/ WorkerTaskDone(t) \/ WorkerCheck(t)

NextPipe == Main \/ \E t \in 1..MaxThreads : worker_thread(t)

\* Every thread that can take a step takes one in the end.
SpecPipe ==
    /\ InitPipe
    /\ [][NextPipe]_vars
    /\ WF_vars(Main)
    /\ \A t \in 1..MaxThreads : WF_vars(worker_thread(t))

\* The state at the return: the count is the number of items loaded, every
\* worker has left its loop, and the last queue holds each item once, with
\* the stages 1..nstages applied in this order.
PipeDone ==
    /\ ret.op = "pipeline_threads"
    /\ ret.val = <<call.load>>
    /\ \A t \in DOMAIN threads : threads[t].pc = "exit"
    /\ \A q \in 1..nstages : queues[q] = <<>>
    /\ Len(queues[nstages + 1]) = call.load
    /\ SeqRange(queues[nstages + 1])
           = {[id |-> i, trace |-> [s \in 1..nstages |-> s]] : i \in 1..call.load}

\* Every stage has a worker, and there is a stage.
Staffed == nstages >= 1 /\ \A s \in 1..nstages : call.funcs[s] >= 1

\* C25: for every load, every number of stages and of workers per stage and
\* every maxsize, the call returns; at the return every item has passed
\* every stage once, in stage order, every worker has exited and the count
\* is the number of items.  No run stays blocked on a full queue.
C25_PipelineTerminates ==
    /\ <>(main.pc = "done")
    /\ [](main.pc = "done" => PipeDone)

\* C25, amended: the same for every pipeline of at least one stage with at
\* least one worker at each stage.
C25_PipelineStaffed ==
    /\ Staffed => <>(main.pc = "done")
    /\ [](main.pc = "done" => PipeDone)

\* The call has returned from a run of two stages, one of them with two
\* workers, with more items than the bounded queues hold.
C25_Witness ==
    /\ main.pc = "done"
    /\ nstages = 2
    /\ \E s \in 1..nstages : call.funcs[s] = 2
    /\ \A s \in 1..nstages : call.funcs[s] >= 1
    /\ call.maxsize = 1
    /\ call.load = MaxItems

(***************************************************************************)
(* HistoryDatabase with the three writes of an append as separate steps,   *)
(* so that a step or a search of another thread may run between them.      *)
(* call holds the append in progress: the write to make next and the item. *)
(***************************************************************************)
\* An append that leaves the age as it is.
append_age_none == UNCHANGED age

\* self.age[self.txt.pos] = 0
append_age == age' = [age EXCEPT ![pos + 1] = 0]

\* self.idx.add(self.txt.pos, emb)
append_idx(item) == add(<<pos>>, <<embed(item.txt)>>, DefaultGroup, FALSE)

\* self.txt.append((meta, txt))
append_txt(item) == FiniteList_append(item) /\ hist' = Append(hist, item)

AppendAge ==
    /\ budget > 0
    /\ call = <<>>
    /\ append_age
    /\ \E txt \in Texts :
          call' = [at |-> "idx", item |-> [meta |-> Len(hist) + 1, txt |-> txt]]
    /\ UNCHANGED <<ringvars, idxvars, hist, written, given, pipevars, budget, ret>>

AppendIdx ==
    /\ call # <<>>
    /\ call.at = "idx"
    /\ append_idx(call.item)
    /\ call' = [call EXCEPT !.at = "txt"]
    /\ UNCHANGED <<ringvars, hist, age, written, given, pipevars, budget>>

AppendTxt ==
    /\ call # <<>>
    /\ call.at = "txt"
    /\ append_txt(call.item)
    /\ call' = <<>>
    /\ budget' = budget - 1
    /\ UNCHANGED <<max, idxvars, age, written, given, pipevars, ret>>

\* A step at any moment.
StepAnywhere ==
    /\ budget > 0
    /\ step
    /\ ret' = [op |-> "step", args |-> <<>>, err |-> "none", val |-> <<>>]
    /\ budget' = budget - 1
    /\ UNCHANGED <<ringvars, idxvars, hist, written, given, pipevars, call>>

\* A search at any moment: what it reads of the three stores, the number of
\* ages gathered, the number of raw similarities and len(self), and whether
\* an append was in progress.
SearchAnywhere ==
    /\ budget > 0
    /\ ret' = [op |-> "search", args |-> <<>>, err |-> "none",
               val |-> [ages |-> Len(live_ages), sims |-> size, len |-> Len(data),
                        inside |-> call # <<>>]]
    /\ budget' = budget - 1
    /\ UNCHANGED <<ringvars, idxvars, hist, age, written, given, pipevars, call>>

NextSplit == AppendAge \/ AppendIdx \/ AppendTxt \/ StepAnywhere \/ SearchAnywhere

SpecSplit == InitHist /\ [][NextSplit]_vars

\* C26: between calls the ages gathered, the index and the ring have one
\* size; inside an append to a position never written the ages are one
\* more than the index after the first write, and the index one more than
\* the ring after the second; a search that saw two different sizes ran
\* inside an append.
C26_AppendNotAtomic ==
    /\ call = <<>> => (Len(live_ages) = size /\ size = Len(data))
    /\ (call # <<>> /\ Len(data) < max) =>
          IF call.at = "idx"
          THEN Len(live_ages) = size + 1 /\ size = Len(data)
          ELSE Len(live_ages) = size /\ size = Len(data) + 1
    /\ (ret.op = "search" /\ ~ret.val.inside) =>
          (ret.val.ages = ret.val.sims /\ ret.val.sims = ret.val.len)

\* A search that ran after the second write of an append saw an index
\* larger than the ring; one append before it had run to completion.
C26_Witness ==
    /\ ret.op = "search"
    /\ ret.val.inside
    /\ ret.val.sims # ret.val.len
    /\ ret.val.len >= 1

====
